---- MODULE Spec2Model ----
(***************************************************************************)
(* A model of MatFile.h: the streaming MAT-file encoder                    *)
(* (MatFile::Variable<T>) and the registry that multiplexes encoders by    *)
(* name and by integer id (MatFile).                                       *)
(*                                                                         *)
(* Files are byte sequences (1-based in TLA+, so file offset k is index    *)
(* k+1).  A FILE* is NULL or a record [path, pos]; the bytes live in       *)
(* `disk`.  Objects are written the way fwrite writes them: as their       *)
(* object representation, little-endian, with the widths of the ABI the    *)
(* program was built for (`abi`).                                          *)
(***************************************************************************)
EXTENDS Integers, Sequences, FiniteSets, TLC

VARIABLES
    abi,         \* the ABI of the build: fixes sizeof(size_t), sizeof(long)
    _dir,        \* MatFile::_dir
    _is_ready,   \* MatFile::_is_ready
    _name2id,    \* MatFile::_name2id
    _variables,  \* MatFile::_variables (Variable<T> objects, by position)
    disk,        \* the file system: path -> bytes
    crashed,     \* the process was terminated by undefined behaviour
    last,        \* the last call made and what it returned
    twin,        \* a second, identically constructed encoder and its file
    budget,      \* number of I/O failures the environment may still inject
    hist         \* per variable: the calls its encoder has received

vars == <<abi, _dir, _is_ready, _name2id, _variables, disk, crashed, last,
          twin, budget, hist>>

----------------------------------------------------------------------------
(* Bounds of the model. *)

\* most elements a variable receives
MaxCount == 3
\* longest batch handed to write(const T*, size_t)
MaxBatch == 2
\* most variables the registry is asked to create
MaxVars == 2
\* most I/O failures the environment injects in one run
MaxFaults == 1
\* most write calls one encoder receives
MaxCalls == 3
\* most elements the callers of the registry write to one variable
MaxWrites == 2

----------------------------------------------------------------------------
(* MAT-file data types and sub-element sizes (MatFile.h:19-37). *)

miINT8 == 1
miUINT8 == 2
miINT16 == 3
miUINT16 == 4
miINT32 == 5
miUINT32 == 6
miSINGLE == 7
miDOUBLE == 9
miINT64 == 12
miUINT64 == 13
miMATRIX == 14

ARRAY_FLAGS_SIZE == 16
DIM_ARRAY_SIZE == 16
ARRAY_NAME_TAG_SIZE == 8
RE_TAG_SIZE == 8

\* a table that gives miDOUBLE the array class of miSINGLE
mi2mx_double_as_single(mi) ==
    <<0, 8, 9, 10, 11, 12, 13, 7, 0, 7, 0, 0, 14, 15, 0, 0>>[mi + 1]

\* static const int mi2mx[16], indexed from 0
mi2mx(mi) ==
    <<0, 8, 9, 10, 11, 12, 13, 7, 0, 6, 0, 0, 14, 15, 0, 0>>[mi + 1]

HEADER_SIZE == 124
_dim_tag_offset == 164
_mat_tag_offset == 132

NULL == [null |-> TRUE]
Uninit == "uninitialized"

----------------------------------------------------------------------------
(* The ABI: object sizes and representations. *)

ABIs == {"ILP32", "LP64"}

sizeof_size_t == IF abi = "LP64" THEN 8 ELSE 4
sizeof_long == IF abi = "LP64" THEN 8 ELSE 4
sizeof_int == 4
sizeof_short == 2

\* The element types T a caller may instantiate Variable<T> with; "bool"
\* stands for every type none of the is_xxx<T> templates accepts.
CTypes == {"char", "unsigned char", "short", "unsigned short", "int",
           "unsigned int", "long", "unsigned long", "long long",
           "unsigned long long", "float", "double", "bool"}

sizeof(T) ==
    CASE T \in {"char", "unsigned char", "bool"} -> 1
      [] T \in {"short", "unsigned short"} -> sizeof_short
      [] T \in {"int", "unsigned int", "float"} -> sizeof_int
      [] T \in {"long", "unsigned long"} -> sizeof_long
      [] T \in {"long long", "unsigned long long", "double"} -> 8

\* the object representation of the integer n in w bytes (two's complement,
\* little-endian): what fwrite(&n, w, 1, fp) puts in the file
RECURSIVE ObjRep(_, _)
ObjRep(n, w) ==
    IF w = 0 THEN <<>> ELSE <<n % 256>> \o ObjRep(n \div 256, w - 1)

\* the integer a w-byte little-endian field holds
RECURSIVE Decode(_)
Decode(bytes) ==
    IF bytes = <<>> THEN 0 ELSE Head(bytes) + 256 * Decode(Tail(bytes))

Zeros(n) == [i \in 1..n |-> 0]

RECURSIVE Flatten(_)
Flatten(chunks) ==
    IF chunks = <<>> THEN <<>> ELSE Head(chunks) \o Flatten(Tail(chunks))

Min(a, b) == IF a < b THEN a ELSE b
Max(a, b) == IF a < b THEN b ELSE a

----------------------------------------------------------------------------
(* Type resolution: the is_xxx<T> templates (MatFile.h:65-240) and the     *)
(* chain of write_meta_data that picks miType (MatFile.h:401-427).         *)

is_double(T) == T = "double"
is_float(T) == T = "float"
is_int8(T) == T = "char"
is_int16(T) == (T = "int" /\ sizeof_int = 2) \/ (T = "short" /\ sizeof_short = 2)
is_int32(T) == (T = "int" /\ sizeof_int = 4) \/ (T = "long" /\ sizeof_long = 4)
is_int64(T) ==
    \/ T = "int" /\ sizeof_int = 8
    \/ T = "long" /\ sizeof_long = 8
    \/ T = "long long"
is_uint8(T) == T = "unsigned char"
is_uint16(T) ==
    \/ T = "unsigned int" /\ sizeof_int = 2
    \/ T = "unsigned short" /\ sizeof_short = 2
is_uint32(T) ==
    \/ T = "unsigned int" /\ sizeof_int = 4
    \/ T = "unsigned long" /\ sizeof_long = 4
is_uint64(T) ==
    \/ T = "unsigned int" /\ sizeof_int = 8
    \/ T = "unsigned long" /\ sizeof_long = 8
    \/ T = "unsigned long long"

\* 0 stands for the final `else return false`
miTypeOf(T) ==
    IF is_double(T) THEN miDOUBLE
    ELSE IF is_float(T) THEN miSINGLE
    ELSE IF is_int64(T) THEN miINT64
    ELSE IF is_uint64(T) THEN miUINT64
    ELSE IF is_int32(T) THEN miINT32
    ELSE IF is_uint32(T) THEN miUINT32
    ELSE IF is_int16(T) THEN miINT16
    ELSE IF is_uint16(T) THEN miUINT16
    ELSE IF is_int8(T) THEN miINT8
    ELSE IF is_uint8(T) THEN miUINT8
    ELSE 0

----------------------------------------------------------------------------
(* stdio on a stream io = [data, pos]: the bytes of the file and the file  *)
(* position.                                                               *)

\* fwrite of `bytes` at the file position: overwrites what is there, extends
\* the file past its end (a gap left by a seek past the end reads as zeros)
fwrite(io, bytes) ==
    LET end == io.pos + Len(bytes)
        old == io.data
    IN  [data |-> IF io.pos > Len(old)
                  THEN old \o Zeros(io.pos - Len(old)) \o bytes
                  ELSE SubSeq(old, 1, io.pos) \o bytes
                       \o SubSeq(old, end + 1, Len(old)),
         pos |-> end]

\* fseek(fp, off, SEEK_SET)
fseek(io, off) == [io EXCEPT !.pos = off]

\* One update_counters / constructor I/O call: <<"seek", off>>, <<"write",
\* bytes>> or <<"tell">>.
DoCall(io, call) ==
    CASE call[1] = "seek" -> fseek(io, call[2])
      [] call[1] = "write" -> fwrite(io, call[2])
      [] call[1] = "tell" -> io

\* Runs calls[1..] in order, stopping at the first that fails: call number
\* `fault` fails (0: none does).  A failed call leaves the file and the
\* position as they were.  The result is [io, ok].
RECURSIVE RunCalls(_, _, _, _)
RunCalls(io, calls, k, fault) ==
    IF k > Len(calls) THEN [io |-> io, ok |-> TRUE]
    ELSE IF k = fault THEN [io |-> io, ok |-> FALSE]
    ELSE RunCalls(DoCall(io, calls[k]), calls, k + 1, fault)

----------------------------------------------------------------------------
(* Names, directories and paths, as the bytes of the strings. *)

\* "", "ints", "doubles2"
Names == {<<>>, <<105, 110, 116, 115>>,
          <<100, 111, 117, 98, 108, 101, 115, 50>>}

\* "out": a directory that exists;  "nodir": one that does not;
\* "twin": where the second encoder of the encoder-level specification writes
OutDir == <<111, 117, 116>>
NoDir == <<110, 111, 100, 105, 114>>
TwinDir == <<116, 119, 105, 110>>
ExistingDirs == {OutDir, TwinDir}

\* separator() on a non-Windows build: '/'
separator == <<47>>

\* a path that leaves the name out: one file for all the variables
FilePath_shared(path, name) == path \o separator \o <<46, 109, 97, 116>>

\* path + separator() + name + ".mat"
FilePath(path, name) == path \o separator \o name \o <<46, 109, 97, 116>>

\* std::ctime(&raw): 25 characters, here "Mon Nov  2 23:00:00 2026\n"
ctime == <<77, 111, 110, 32, 78, 111, 118, 32, 32, 50, 32, 50, 51, 58, 48,
           48, 58, 48, 48, 32, 50, 48, 50, 54, 10>>

----------------------------------------------------------------------------
(* Variable<T>::write_header (MatFile.h:341-377). *)

\* "Name: " + _name + "\nFormat: MATLAB 5.0 MAT file" + "\nCreated: " + ctime
header_s(name) ==
    <<78, 97, 109, 101, 58, 32>> \o name
    \o <<10, 70, 111, 114, 109, 97, 116, 58, 32, 77, 65, 84, 76, 65, 66, 32,
         53, 46, 48, 32, 77, 65, 84, 32, 102, 105, 108, 101>>
    \o <<10, 67, 114, 101, 97, 116, 101, 100, 58, 32>> \o ctime

\* char header[HEADER_SIZE], zeroed, then the first min(HEADER_SIZE, size)
\* characters of header_s copied in
header(name) ==
    LET s == header_s(name)
        num_bytes == Min(HEADER_SIZE, Len(s))
    IN  [i \in 1..HEADER_SIZE |-> IF i <= num_bytes THEN s[i] ELSE 0]

\* const short version = 0x0100;  const short endian = ('M' << 8) | 'I'
version == ObjRep(256, sizeof_short)
endian == ObjRep(77 * 256 + 73, sizeof_short)

\* The three fwrite calls are all made, whatever the earlier ones returned;
\* call number hfault transfers nothing.  The result is [io, ok].
write_header(io, name, hfault) ==
    LET io1 == IF hfault = 1 THEN io ELSE fwrite(io, header(name))
        n1 == IF hfault = 1 THEN 0 ELSE HEADER_SIZE
        io2 == IF hfault = 2 THEN io1 ELSE fwrite(io1, version)
        n2 == IF hfault = 2 THEN 0 ELSE 1
        io3 == IF hfault = 3 THEN io2 ELSE fwrite(io2, endian)
        n3 == IF hfault = 3 THEN 0 ELSE 1
    IN  [io |-> io3, ok |-> (n1 + n2 + n3 = 126)]

----------------------------------------------------------------------------
(* Variable<T>::write_meta_data (MatFile.h:379-493). *)

\* int dword[k] as fwrite(dword, sizeof(int), k, _fp) writes it
dwords(ints) == Flatten([i \in 1..Len(ints) |-> ObjRep(ints[i], sizeof_int)])

\* bytes = ARRAY_FLAGS_SIZE + DIM_ARRAY_SIZE + ARRAY_NAME_TAG_SIZE +
\*         _name.size() + RE_TAG_SIZE, rounded up to a multiple of 8
mat_tag_size(name) ==
    LET bytes == ARRAY_FLAGS_SIZE + DIM_ARRAY_SIZE + ARRAY_NAME_TAG_SIZE
                 + Len(name) + RE_TAG_SIZE
    IN  IF Len(name) % 8 # 0 THEN bytes + (8 - (Len(name) % 8)) ELSE bytes

\* The fwrite / ftell calls of write_meta_data, in order.  A name of length
\* 0 is "written" by an fwrite of 0 items, which transfers nothing and
\* cannot fall short: it is no call here.
meta_calls(T, name) ==
    LET miType == miTypeOf(T)
        rem == Len(name) % 8
        first == << <<"write", dwords(<<miMATRIX, mat_tag_size(name),
                                        miUINT32, 8>>)>> >>
    IN  IF miType = 0 THEN first
        ELSE first
          \o << <<"write", SubSeq(dwords(<<mi2mx(miType), 0>>), 1, 8)>>,
                <<"write", dwords(<<miINT32, 8, 1, 0>>)>>,
                <<"write", dwords(<<miINT8, Len(name)>>)>> >>
          \o (IF Len(name) > 0 THEN << <<"write", name>> >> ELSE <<>>)
          \o (IF rem # 0 THEN << <<"write", Zeros(8 - rem)>> >> ELSE <<>>)
          \o << <<"write", dwords(<<miType, 0>>)>>, <<"tell">> >>

\* a write_meta_data that keeps what ftell returned as _re_tag_offset
write_meta_data_told(io, T, name, mfault) ==
    LET calls == meta_calls(T, name)
        r == RunCalls(io, calls, 1, mfault)
    IN  [io |-> r.io, ok |-> r.ok /\ miTypeOf(T) # 0,
         _mat_tag_size |-> mat_tag_size(name),
         _re_tag_offset |-> IF r.ok THEN r.io.pos ELSE Uninit]

\* The result is [io, ok, _mat_tag_size, _re_tag_offset]; call number mfault
\* fails (0: none).  _re_tag_offset is assigned by the ftell alone.
write_meta_data(io, T, name, mfault) ==
    LET calls == meta_calls(T, name)
        r == RunCalls(io, calls, 1, mfault)
        told == r.ok \/ mfault = Len(calls)
        ok == r.ok /\ miTypeOf(T) # 0
    IN  [io |-> r.io, ok |-> ok,
         _mat_tag_size |-> mat_tag_size(name),
         _re_tag_offset |->
             IF miTypeOf(T) = 0 \/ ~told THEN Uninit
             ELSE IF r.ok THEN r.io.pos - sizeof_int ELSE -1]

----------------------------------------------------------------------------
(* Variable<T>::Variable (MatFile.h:267-281). *)

\* What can go wrong while constructing: nothing, the fopen, the k-th fwrite
\* of write_header, the first or the last call of write_meta_data.
ConstructionFaults(T, name) ==
    {<<"none", 0>>, <<"fopen", 0>>}
    \cup {<<"header", k>> : k \in 1..3}
    \cup {<<"meta", k>> : k \in {1, Len(meta_calls(T, name))}}

\* The constructor after a successful fopen(..., "wb") (an empty file, at
\* position 0).  The result is [var, data]: the object and its file's bytes.
Variable(T, path, name, cf) ==
    LET io0 == [data |-> <<>>, pos |-> 0]
        h == write_header(io0, name, IF cf[1] = "header" THEN cf[2] ELSE 0)
        m == write_meta_data(h.io, T, name,
                             IF cf[1] = "meta" THEN cf[2] ELSE 0)
        ok == h.ok /\ m.ok
        io == IF h.ok THEN m.io ELSE h.io
    IN  [var |-> [T |-> T,
                  _count |-> 0,
                  _fp |-> IF ok THEN [path |-> FilePath(path, name),
                                      pos |-> io.pos]
                          ELSE NULL,
                  _mat_tag_size |-> IF h.ok THEN m._mat_tag_size ELSE Uninit,
                  _name |-> name,
                  _re_tag_offset |->
                      IF h.ok THEN m._re_tag_offset ELSE Uninit],
         data |-> io.data]

\* The constructor when fopen returned NULL and the fwrite(.., NULL) and
\* fclose(NULL) that follow happened to return: nothing is written.
VariableNoFile(T, name) ==
    [T |-> T, _count |-> 0, _fp |-> NULL, _mat_tag_size |-> Uninit,
     _name |-> name, _re_tag_offset |-> Uninit]

----------------------------------------------------------------------------
(* Variable<T>::update_counters (MatFile.h:497-547). *)

\* a size_t as fwrite(&x, sizeof(size_t), 1, _fp) writes it
size_t_bytes(x) == ObjRep(x, sizeof_size_t)

\* bytes = _mat_tag_size + _count * sizeof(T)
counted_bytes(v) == v._mat_tag_size + v._count * sizeof(v.T)

\* rem = bytes % 8
pad_rem(v) == counted_bytes(v) % 8

\* an outer tag that holds the bytes before the padding is added
mat_bytes_unpadded(v) == counted_bytes(v)

\* if (rem) bytes += (8 - rem): the value patched into the outer tag
mat_bytes(v) ==
    IF pad_rem(v) # 0 THEN counted_bytes(v) + (8 - pad_rem(v))
    ELSE counted_bytes(v)

\* a real-part tag that holds the number of elements and not of bytes
re_bytes_in_elements(v) == v._count

\* bytes = _count * sizeof(T): the value patched into the real-part tag
re_bytes(v) == v._count * sizeof(v.T)

\* The ftell, fseek and fwrite calls of update_counters, in order, for the
\* position curr that ftell returned.
counter_calls(v, curr) ==
    << <<"tell">>,
       <<"seek", _mat_tag_offset>>, <<"write", size_t_bytes(mat_bytes(v))>>,
       <<"seek", _dim_tag_offset>>, <<"write", size_t_bytes(v._count)>>,
       <<"seek", v._re_tag_offset>>, <<"write", size_t_bytes(re_bytes(v))>>,
       <<"seek", curr>> >>
    \o (IF pad_rem(v) # 0
        THEN << <<"write", Zeros(8 - pad_rem(v))>>, <<"seek", curr>> >>
        ELSE <<>>)

\* The result is [io, ok]; call number ufault fails (0: none).
update_counters(v, io, ufault) ==
    RunCalls(io, counter_calls(v, io.pos), 1, ufault)

\* number of I/O calls update_counters makes for v
NumCounterCalls(v) == Len(counter_calls(v, 0))

----------------------------------------------------------------------------
(* Variable<T>::write (MatFile.h:315-339).  `data` is the content of the   *)
(* variable's file; the result is [var, data, ret].                        *)

\* The shared body: fwrite(data, sizeof(T), numel, _fp) transfers the first
\* num elements; _count += num; then num == numel && update_counters().
append(v, data, elems, num, ufault) ==
    LET io0 == [data |-> data, pos |-> v._fp.pos]
        io1 == fwrite(io0, Flatten(SubSeq(elems, 1, num)))
        v1 == [v EXCEPT !._count = v._count + num]
        u == IF num = Len(elems) THEN update_counters(v1, io1, ufault)
             ELSE [io |-> io1, ok |-> FALSE]
    IN  [var |-> [v1 EXCEPT !._fp.pos = u.io.pos],
         data |-> u.io.data,
         ok |-> u.ok]

\* bool write(const T& element)
write(v, data, element, num, ufault) ==
    IF v._fp = NULL THEN [var |-> v, data |-> data, ret |-> FALSE]
    ELSE LET a == append(v, data, <<element>>, num, ufault)
         IN  [var |-> a.var, data |-> a.data, ret |-> a.ok]

\* size_t write(const T* data, size_t numel): the bool of the return
\* expression converts to 1 or 0
write_batch(v, data, elems, num, ufault) ==
    IF v._fp = NULL THEN [var |-> v, data |-> data, ret |-> 0]
    ELSE LET a == append(v, data, elems, num, ufault)
         IN  [var |-> a.var, data |-> a.data,
              ret |-> IF a.ok THEN 1 ELSE 0]

\* M single-element writes of elems, in order, none failing
RECURSIVE write_each(_, _, _)
write_each(v, data, elems) ==
    IF elems = <<>> THEN [var |-> v, data |-> data, ret |-> TRUE]
    ELSE LET w == write(v, data, Head(elems), 1, 0)
         IN  write_each(w.var, w.data, Tail(elems))

----------------------------------------------------------------------------
(* MatFile: the constructor, create and the two write overloads            *)
(* (MatFile.h:580-695).                                                    *)

\* !stat(dir.c_str(), &info)
stat_ok(dir) == dir \in ExistingDirs

\* _variables.size() <= _id, where const size_t _id = id: a negative int
\* converts to a size_t above every container size
size_le_id(size, id) == id < 0 \/ size <= id

\* a create that does not look at _is_ready
create_unready(name) ==
    LET id == Len(_variables)
    IN  IF name \in DOMAIN _name2id
        THEN [ret |-> _name2id[name], name2id |-> _name2id, pushed |-> FALSE]
        ELSE [ret |-> id, name2id |-> (name :> id) @@ _name2id,
              pushed |-> TRUE]

\* a create that does not look the name up and registers it anew every time
create_anew(name) ==
    IF ~_is_ready THEN [ret |-> -1, name2id |-> _name2id, pushed |-> FALSE]
    ELSE LET id == Len(_variables)
         IN  [ret |-> id,
              name2id |-> [n \in (DOMAIN _name2id) \cup {name} |->
                              IF n = name THEN id ELSE _name2id[n]],
              pushed |-> TRUE]

\* a create that takes the id from _variables.size() after the push_back
create_id_after_push(name) ==
    IF ~_is_ready THEN [ret |-> -1, name2id |-> _name2id, pushed |-> FALSE]
    ELSE LET id == Len(_variables) + 1
         IN  IF name \in DOMAIN _name2id
             THEN [ret |-> _name2id[name], name2id |-> _name2id,
                   pushed |-> FALSE]
             ELSE [ret |-> id, name2id |-> (name :> id) @@ _name2id,
                   pushed |-> TRUE]

\* The result of create: [ret, name2id, pushed], where pushed tells whether
\* a new Variable<T> is constructed and appended.
create(name) ==
    IF ~_is_ready THEN [ret |-> -1, name2id |-> _name2id, pushed |-> FALSE]
    ELSE LET id == Len(_variables)
         IN  IF name \in DOMAIN _name2id
             THEN [ret |-> _name2id[name], name2id |-> _name2id,
                   pushed |-> FALSE]
             ELSE [ret |-> id, name2id |-> (name :> id) @@ _name2id,
                   pushed |-> TRUE]

\* write(int id, const T& value) up to the call of Variable<T>::write:
\* "false" (an early return), "null" (the dynamic_cast gave NULL and the
\* call goes through it) or "call" (Variable<T>::write is called).
write_dispatch(id, T) ==
    IF ~_is_ready THEN "false"
    ELSE IF size_le_id(Len(_variables), id) THEN "false"
    ELSE IF _variables[id + 1].T # T THEN "null"
    ELSE "call"

\* a lookup with _name2id[name], which gives an unknown name the id 0
write_lookup_subscript(name) ==
    IF ~_is_ready THEN -1
    ELSE IF name \notin DOMAIN _name2id THEN 0
    ELSE _name2id[name]

\* write(const std::string& name, const T& value) up to the call of
\* write(iter->second, value): the id it forwards, or -1 for `return false`
\* (an id no write(int, ...) accepts)
write_lookup(name) ==
    IF ~_is_ready THEN -1
    ELSE IF name \notin DOMAIN _name2id THEN -1
    ELSE _name2id[name]

----------------------------------------------------------------------------
(* Inputs. *)

\* the integers whose object representations are written as elements
ElementValues == {-1, 2}

Elements(T) == {ObjRep(x, sizeof(T)) : x \in ElementValues}

\* the element the callers of the registry write
RegistryElement(T) == ObjRep(-1, sizeof(T))

SeqsUpTo(S, n) == UNION {[1..k -> S] : k \in 0..n}

\* the element types the registry-level specification creates and writes;
\* "bool" is one no is_xxx<T> accepts
RegistryTypes == {"char", "double", "bool"}

\* the names the registry's callers use
RegistryNames == {<<105, 110, 116, 115>>,
                  <<100, 111, 117, 98, 108, 101, 115, 50>>}

\* how many of numel elements the payload fwrite may transfer
Transfers(numel) == IF budget > 0 THEN 0..numel ELSE {numel}

\* which call of update_counters may fail, once _count is v._count + num
CounterFaults(v, num, numel) ==
    IF budget > 0 /\ num = numel /\ v._fp # NULL
    THEN 0..NumCounterCalls([v EXCEPT !._count = v._count + num])
    ELSE {0}

NoTwin == [none |-> TRUE]
NoHist == [calls |-> 0, singles |-> TRUE, allok |-> TRUE, elems |-> <<>>]

\* the record of one more call on an encoder
Logged(h, single, ok, elems) ==
    [calls |-> h.calls + 1,
     singles |-> h.singles /\ single,
     allok |-> h.allok /\ ok,
     elems |-> IF ok THEN h.elems \o elems ELSE h.elems]

----------------------------------------------------------------------------
(* The registry-level specification: one MatFile object and its callers. *)

\* MatFile::MatFile(mode, dir)
Init ==
    /\ abi \in ABIs
    /\ _dir \in {OutDir, NoDir}
    /\ _is_ready = stat_ok(_dir)
    /\ _name2id = <<>>
    /\ _variables = <<>>
    /\ disk = <<>>
    /\ crashed = FALSE
    /\ last = [op |-> "MatFile"]
    /\ twin = NoTwin
    /\ budget = MaxFaults
    /\ hist = <<>>

\* create<T>(name); the construction of the Variable<T> meets the fault cf
Create(name, T, cf) ==
    /\ ~crashed
    /\ cf \in ConstructionFaults(T, name)
    /\ cf[1] # "none" => budget > 0
    /\ LET c == create(name)
           new == Variable(T, _dir, name, cf)
       IN  IF ~c.pushed
           THEN /\ cf[1] = "none"
                /\ last' = [op |-> "create", ret |-> c.ret]
                /\ UNCHANGED <<_name2id, _variables, disk, crashed, budget,
                               hist>>
           ELSE /\ Len(_variables) < MaxVars
                /\ _name2id' = c.name2id
                /\ budget' = IF cf[1] = "none" THEN budget ELSE budget - 1
                /\ hist' = Append(hist, NoHist)
                /\ IF cf[1] = "fopen"
                   \* fwrite and fclose on a NULL stream: undefined
                   THEN /\ crashed' \in BOOLEAN
                        /\ _variables' =
                               Append(_variables, VariableNoFile(T, name))
                        /\ disk' = disk
                   ELSE /\ crashed' = FALSE
                        /\ _variables' = Append(_variables, new.var)
                        /\ disk' = (FilePath(_dir, name) :> new.data) @@ disk
                /\ last' = [op |-> "create", ret |-> c.ret]
    /\ UNCHANGED <<abi, _dir, _is_ready, twin>>

\* The media a write of the registry's callers may meet, as <<num, ufault>>:
\* while the budget lasts the payload fwrite may transfer nothing, or the
\* first patching fwrite of update_counters (its call number 3) may fail.
Media == IF budget > 0 THEN {<<1, 0>>, <<0, 0>>, <<1, 3>>} ELSE {<<1, 0>>}

\* The effect of write(id, value) with a value e of type T, on behalf of
\* the call `op`; `last` keeps the id of a call that got past the range
\* check.
WriteVia(op, id, T, e) ==
    LET d == write_dispatch(id, T)
        v == _variables[id + 1]
        path == v._fp.path
    IN  /\ (d = "call" /\ v._fp # NULL) => v._count < MaxWrites
        /\ CASE d = "false" ->
                  /\ last' = [op |-> op, ret |-> FALSE, how |-> "rejected"]
                  /\ UNCHANGED <<_variables, disk, crashed, hist, budget>>
             [] d = "null" ->
                  \* a member call through a null pointer: undefined (the
                  \* process dies, or the call returns some bool)
                  /\ \E ub \in {"crash", "false", "true"} :
                        /\ last' = [op |-> op, ret |-> (ub = "true"),
                                    how |-> "null", id |-> id]
                        /\ crashed' = (ub = "crash")
                  /\ UNCHANGED <<_variables, disk, hist, budget>>
             [] d = "call" /\ v._fp = NULL ->
                  \* Variable<T>::write returns false at once
                  /\ last' = [op |-> op, ret |-> FALSE, how |-> "closed",
                              id |-> id]
                  /\ UNCHANGED <<_variables, disk, crashed, hist, budget>>
             [] d = "call" /\ v._fp # NULL ->
                  \E m \in Media :
                        LET num == m[1]
                            ufault == m[2]
                            w == write(v, disk[path], e, num, ufault)
                        IN  /\ last' = [op |-> op, ret |-> w.ret,
                                        how |-> "written", id |-> id]
                            /\ _variables' =
                                   [_variables EXCEPT ![id + 1] = w.var]
                            /\ disk' = [disk EXCEPT ![path] = w.data]
                            /\ hist' = [hist EXCEPT ![id + 1] =
                                           Logged(@, TRUE, w.ret, <<e>>)]
                            /\ budget' = IF num # 1 \/ ufault # 0
                                         THEN budget - 1 ELSE budget
                            /\ crashed' = FALSE

\* write<T>(id, value)
WriteId(id, T) ==
    /\ ~crashed
    /\ WriteVia("write_id", id, T, RegistryElement(T))
    /\ UNCHANGED <<abi, _dir, _is_ready, _name2id, twin>>

\* write<T>(name, value)
WriteName(name, T) ==
    /\ ~crashed
    /\ WriteVia("write_name", write_lookup(name), T, RegistryElement(T))
    /\ UNCHANGED <<abi, _dir, _is_ready, _name2id, twin>>

\* the ids callers pass: every valid one, and one out of range on each side
Ids == -1..MaxVars

Next ==
    \/ \E name \in RegistryNames, T \in RegistryTypes :
          \E cf \in (IF create(name).pushed THEN ConstructionFaults(T, name)
                     ELSE {<<"none", 0>>}) :
             Create(name, T, cf)
    \/ \E id \in Ids, T \in RegistryTypes : WriteId(id, T)
    \/ \E name \in RegistryNames, T \in RegistryTypes : WriteName(name, T)

Spec == Init /\ [][Next]_vars

----------------------------------------------------------------------------
(* The encoder-level specification: one Variable<T>, written one element   *)
(* and one batch at a time on a medium that does not fail, and a twin,     *)
(* constructed the same way in another directory, that receives the same   *)
(* elements one at a time.                                                 *)

InitVar ==
    /\ abi \in ABIs
    /\ _dir = OutDir
    /\ _is_ready = stat_ok(_dir)
    /\ _name2id = <<>>
    /\ _variables = <<>>
    /\ disk = <<>>
    /\ twin = NoTwin
    /\ crashed = FALSE
    /\ last = [op |-> "MatFile"]
    /\ budget = 0
    /\ hist = <<>>

\* new Variable<T>(_dir, name), and its twin in the other directory
VarNew(T, name) ==
    LET a == Variable(T, _dir, name, <<"none", 0>>)
        b == Variable(T, TwinDir, name, <<"none", 0>>)
    IN  /\ _variables = <<>>
        /\ a.var._fp # NULL
        /\ _name2id' = (name :> 0)
        /\ _variables' = <<a.var>>
        /\ disk' = (FilePath(_dir, name) :> a.data)
        /\ twin' = [var |-> b.var, data |-> b.data]
        /\ last' = [op |-> "Variable"]
        /\ hist' = <<NoHist>>
        /\ UNCHANGED <<abi, _dir, _is_ready, crashed, budget>>

\* _variables[0]->write(element)
VarWrite(e, num, ufault) ==
    LET v == _variables[1]
        path == v._fp.path
        w == write(v, disk[path], e, num, ufault)
        t == write(twin.var, twin.data, e, 1, 0)
    IN  /\ ~crashed
        /\ _variables # <<>>
        /\ hist[1].calls < MaxCalls
        /\ v._count < MaxCount
        /\ _variables' = <<w.var>>
        /\ disk' = [disk EXCEPT ![path] = w.data]
        /\ twin' = [var |-> t.var, data |-> t.data]
        /\ last' = [op |-> "write", ret |-> w.ret]
        /\ budget' = IF num # 1 \/ ufault # 0 THEN budget - 1 ELSE budget
        /\ hist' = <<Logged(hist[1], TRUE, w.ret, <<e>>)>>
        /\ UNCHANGED <<abi, _dir, _is_ready, _name2id, crashed>>

\* _variables[0]->write(elems, numel)
VarWriteBatch(elems, num, ufault) ==
    LET v == _variables[1]
        path == v._fp.path
        w == write_batch(v, disk[path], elems, num, ufault)
        t == write_each(twin.var, twin.data, elems)
    IN  /\ ~crashed
        /\ _variables # <<>>
        /\ hist[1].calls < MaxCalls
        /\ v._count + Len(elems) <= MaxCount
        /\ _variables' = <<w.var>>
        /\ disk' = [disk EXCEPT ![path] = w.data]
        /\ twin' = [var |-> t.var, data |-> t.data]
        /\ last' = [op |-> "write_batch", ret |-> w.ret,
                    numel |-> Len(elems)]
        /\ budget' = IF num # Len(elems) \/ ufault # 0 THEN budget - 1
                     ELSE budget
        /\ hist' = <<Logged(hist[1], FALSE, w.ret = 1, elems)>>
        /\ UNCHANGED <<abi, _dir, _is_ready, _name2id, crashed>>

\* the element type of the encoder, once constructed
ElemType == IF _variables = <<>> THEN "char" ELSE _variables[1].T

NextVar ==
    \/ \E T \in CTypes, name \in Names : VarNew(T, name)
    \/ \E e \in Elements(ElemType), num \in Transfers(1) :
          \E ufault \in
                (IF _variables = <<>> THEN {0}
                 ELSE CounterFaults(_variables[1], num, 1)) :
             VarWrite(e, num, ufault)
    \/ \E elems \in SeqsUpTo(Elements(ElemType), MaxBatch) :
          \E num \in Transfers(Len(elems)) :
             \E ufault \in
                   (IF _variables = <<>> THEN {0}
                    ELSE CounterFaults(_variables[1], num, Len(elems))) :
                VarWriteBatch(elems, num, ufault)

SpecVar == InitVar /\ [][NextVar]_vars

----------------------------------------------------------------------------
(* The encoder-level specification on a medium that may fail: the same     *)
(* encoder and the same calls, where up to MaxFaults calls meet a short     *)
(* payload transfer or a failing ftell, fseek or fwrite of update_counters. *)

InitFault ==
    /\ abi \in ABIs
    /\ _dir = OutDir
    /\ _is_ready = stat_ok(_dir)
    /\ _name2id = <<>>
    /\ _variables = <<>>
    /\ disk = <<>>
    /\ twin = NoTwin
    /\ crashed = FALSE
    /\ last = [op |-> "MatFile"]
    /\ budget = MaxFaults
    /\ hist = <<>>

\* the element types and the elements written on the failing medium: one of
\* each size
FaultTypes == {"char", "short", "int", "double"}
FaultElements == {RegistryElement(ElemType)}

NextFault ==
    \/ \E T \in FaultTypes, name \in Names : VarNew(T, name)
    \/ \E e \in FaultElements, num \in Transfers(1) :
          \E ufault \in
                (IF _variables = <<>> THEN {0}
                 ELSE CounterFaults(_variables[1], num, 1)) :
             VarWrite(e, num, ufault)
    \/ \E elems \in SeqsUpTo(FaultElements, MaxBatch) :
          \E num \in Transfers(Len(elems)) :
             \E ufault \in
                   (IF _variables = <<>> THEN {0}
                    ELSE CounterFaults(_variables[1], num, Len(elems))) :
                VarWriteBatch(elems, num, ufault)

SpecFault == InitFault /\ [][NextFault]_vars

----------------------------------------------------------------------------
(* The file layout the claims speak of, and what a reader decodes. *)

RoundUp8(n) == IF n % 8 = 0 THEN n ELSE n + (8 - (n % 8))

\* offset of the payload-length field of the real-data sub-tag
PayloadLenOffset(name) == 180 + RoundUp8(Len(name))

\* offset of the first payload byte
PayloadStart(name) == 184 + RoundUp8(Len(name))

\* the 32-bit field at offset off of file f
Field32(f, off) == Decode(SubSeq(f, off + 1, off + 4))

\* the offsets of the three 4-byte fields a write may patch
PatchedOffsets(name) ==
    (132..135) \cup (164..167)
    \cup (PayloadLenOffset(name)..(PayloadLenOffset(name) + 3))

\* the encoder of the encoder-level specification and its file
Enc == _variables[1]
EncFile == disk[Enc._fp.path]
Constructed == _variables # <<>>
LastWriteOk ==
    \/ last.op = "write" /\ last.ret = TRUE
    \/ last.op = "write_batch" /\ last.ret = 1

----------------------------------------------------------------------------
(* Claims about the encoder (checked under SpecVar). *)

\* C1: after N >= 1 successful single-element writes to a freshly
\* constructed variable, and nothing else, the 32-bit field at offset 164
\* holds N and the 32-bit payload-length field holds N * sizeof(T).
C1_CountFields ==
    (Constructed /\ hist[1].calls >= 1 /\ hist[1].singles /\ hist[1].allok)
    => /\ Field32(EncFile, 164) = hist[1].calls
       /\ Field32(EncFile, PayloadLenOffset(Enc._name))
              = hist[1].calls * sizeof(Enc.T)

C1_Witness ==
    /\ Constructed
    /\ hist[1].calls = 3 /\ hist[1].singles /\ hist[1].allok
    /\ Enc.T = "short" /\ abi = "LP64"

\* C2: after any sequence of successful writes of v1..vN, the N * sizeof(T)
\* bytes that follow the real-data sub-tag are the bytes of v1..vN in write
\* order.
C2_PayloadIsWhatWasWritten ==
    (Constructed /\ hist[1].allok)
    => SubSeq(EncFile, PayloadStart(Enc._name) + 1,
              PayloadStart(Enc._name) + Len(hist[1].elems) * sizeof(Enc.T))
          = Flatten(hist[1].elems)

\* C3: after any sequence of successful writes, every byte before the
\* payload other than those of the three patched 4-byte fields has the
\* value it was given at construction.
C3_HeaderFrame ==
    (Constructed /\ hist[1].allok)
    => LET fresh == Variable(Enc.T, _dir, Enc._name, <<"none", 0>>).data
       IN  \A off \in 0..(PayloadStart(Enc._name) - 1) :
              off \notin PatchedOffsets(Enc._name)
                 => EncFile[off + 1] = fresh[off + 1]

\* C4: after every successful write, single or batch, the file size minus
\* 128 is a multiple of 8.
C4_Aligned ==
    (Constructed /\ LastWriteOk) => (Len(EncFile) - 128) % 8 = 0

\* C5: one successful batch write of M elements to a fresh encoder leaves
\* the file, the element count and the write position that M successful
\* single-element writes of the same values leave on its twin.
C5_BatchAsSingles ==
    (Constructed /\ hist[1].calls = 1 /\ last.op = "write_batch"
        /\ last.ret = 1)
    => /\ EncFile = twin.data
       /\ Enc._count = twin.var._count
       /\ Enc._fp.pos = twin.var._fp.pos

----------------------------------------------------------------------------
(* Claims about the registry (checked under Spec). *)

Writes == {"write_id", "write_name"}

\* C6: create returns a negative value whenever the registry is not ready
\* or the construction of the new encoder fails: a handle that is not
\* negative names an encoder whose construction succeeded.
C6_FailedCreateIsNegative ==
    (last.op = "create" /\ ~crashed)
    => /\ ~_is_ready => last.ret < 0
       /\ last.ret >= 0 => _variables[last.ret + 1]._fp # NULL

\* C7: a write, by handle or by name, of a value whose type is not the one
\* the variable was created with returns false as an ordinary result and
\* changes no variable and no file.
C7_TypeMismatchRejected ==
    [][\A T \in RegistryTypes :
          /\ \A id \in Ids :
                (/\ last'.op = "write_id"
                 /\ _is_ready /\ id >= 0 /\ id < Len(_variables)
                 /\ _variables[id + 1].T # T
                 /\ WriteId(id, T))
                => (last'.ret = FALSE /\ ~crashed'
                    /\ UNCHANGED <<_variables, disk>>)
          /\ \A name \in DOMAIN _name2id :
                (/\ last'.op = "write_name"
                 /\ _is_ready
                 /\ _variables[_name2id[name] + 1].T # T
                 /\ WriteName(name, T))
                => (last'.ret = FALSE /\ ~crashed'
                    /\ UNCHANGED <<_variables, disk>>)]_vars

\* C8: a write to a name that was never registered, or to a handle outside
\* 0 .. number of streams - 1, returns false and changes no variable, no
\* file and no mapping.
C8_UnknownTargetRejected ==
    [][\A T \in RegistryTypes :
          /\ \A id \in Ids :
                (/\ last'.op = "write_id"
                 /\ (id < 0 \/ id >= Len(_variables))
                 /\ WriteId(id, T))
                => (last'.ret = FALSE /\ ~crashed'
                    /\ UNCHANGED <<_variables, disk, _name2id>>)
          /\ \A name \in RegistryNames :
                (/\ last'.op = "write_name"
                 /\ name \notin DOMAIN _name2id
                 /\ WriteName(name, T))
                => (last'.ret = FALSE /\ ~crashed'
                    /\ UNCHANGED <<_variables, disk, _name2id>>)]_vars

C8_Witness ==
    /\ last.op = "write_name" /\ last.how = "rejected" /\ last.ret = FALSE
    /\ _is_ready /\ Len(_variables) = 1
    /\ _variables[1]._fp # NULL /\ _variables[1]._count > 0

\* C9: on a directory that does not exist the registry is never ready,
\* every create returns -1, every write returns false, and there is never a
\* stream, a name mapping or a file.
C9_NotReadyIsInert ==
    ~stat_ok(_dir)
    => /\ ~_is_ready /\ ~crashed
       /\ _variables = <<>> /\ DOMAIN _name2id = {} /\ DOMAIN disk = {}
       /\ last.op = "create" => last.ret = -1
       /\ last.op \in Writes => last.ret = FALSE

C9_Witness == _dir = NoDir /\ last.op = "create"

\* C10: create with a name that is already registered, whatever the element
\* type, returns the handle the first registration returned, and changes no
\* stream, no mapping and no file; a name's handle never changes.
C10_CreateIdempotent ==
    [][/\ \A name \in DOMAIN _name2id :
             /\ name \in DOMAIN _name2id'
             /\ _name2id'[name] = _name2id[name]
             /\ \A T \in RegistryTypes :
                   (last'.op = "create" /\ Create(name, T, <<"none", 0>>))
                   => (last'.ret = _name2id[name] /\ ~crashed'
                       /\ UNCHANGED <<_name2id, _variables, disk, hist>>)
       /\ \A name \in (DOMAIN _name2id') \ (DOMAIN _name2id) :
             last'.op = "create" /\ last'.ret = _name2id'[name]]_vars

C10_Witness ==
    /\ last.op = "create" /\ last.ret = 0 /\ ~crashed
    /\ Len(_variables) = 2
    /\ _variables[1]._fp # NULL /\ _variables[1]._count > 0

\* C11: the N-th distinct registered name has handle N - 1, the mapping is
\* injective, every handle in it is at least 0 and below the number of
\* streams, and the handle of a name never changes.
C11_HandlesInOrder ==
    /\ [](/\ Cardinality(DOMAIN _name2id) = Len(_variables)
          /\ \A i \in 1..Len(_variables) :
                /\ _variables[i]._name \in DOMAIN _name2id
                /\ _name2id[_variables[i]._name] = i - 1
          /\ \A n \in DOMAIN _name2id :
                /\ 0 <= _name2id[n] /\ _name2id[n] < Len(_variables)
                /\ \A m \in DOMAIN _name2id :
                      _name2id[m] = _name2id[n] => m = n)
    /\ [][\A n \in DOMAIN _name2id :
             n \in DOMAIN _name2id' /\ _name2id'[n] = _name2id[n]]_vars

C11_Witness ==
    /\ ~crashed /\ last.op = "create" /\ last.ret = 1
    /\ Len(_variables) = 2 /\ Cardinality(DOMAIN _name2id) = 2

\* What write(id, value) can return and leave behind when the payload
\* fwrite transfers num elements and call number ufault of update_counters
\* fails: a set of [ret, crashed, _variables, disk], of one element unless
\* the behaviour of the call is undefined.
write_by_handle(id, T, e, num, ufault) ==
    LET d == write_dispatch(id, T)
        v == _variables[id + 1]
        same == [crashed |-> FALSE, _variables |-> _variables, disk |-> disk]
    IN  CASE d = "false" -> {[ret |-> FALSE] @@ same}
          [] d = "null" ->
               {[ret |-> FALSE, crashed |-> TRUE, _variables |-> _variables,
                 disk |-> disk],
                [ret |-> FALSE] @@ same, [ret |-> TRUE] @@ same}
          [] d = "call" /\ v._fp = NULL -> {[ret |-> FALSE] @@ same}
          [] d = "call" /\ v._fp # NULL ->
               LET w == write(v, disk[v._fp.path], e, num, ufault)
               IN  {[ret |-> w.ret, crashed |-> FALSE,
                     _variables |-> [_variables EXCEPT ![id + 1] = w.var],
                     disk |-> [disk EXCEPT ![v._fp.path] = w.data]]}

----------------------------------------------------------------------------
(* Further claims about the encoder. *)

\* the element types some is_xxx<T> accepts
SupportedTypes == CTypes \ {"bool"}

\* The kind of an element type: floating, signed or unsigned, and its width
\* in bits on the build.
Kind(T) ==
    [class |-> IF T \in {"float", "double"} THEN "floating"
               ELSE IF T \in {"unsigned char", "unsigned short",
                              "unsigned int", "unsigned long",
                              "unsigned long long"} THEN "unsigned"
               ELSE "signed",
     bits |-> 8 * sizeof(T)]

\* C13: the type tag and the array class written for an encoder are those
\* resolved for its element type; every supported type resolves to a type
\* tag and to an array class that is not 0; and two supported types resolve
\* to the same type tag, and to the same array class, exactly when they are
\* of the same one of the 10 kinds.
C13_TypeResolution ==
    Constructed
    => /\ Field32(EncFile, 144) % 256 = mi2mx(miTypeOf(Enc.T))
       /\ Field32(EncFile, PayloadLenOffset(Enc._name) - 4) = miTypeOf(Enc.T)
       /\ Cardinality({Kind(T) : T \in SupportedTypes}) = 10
       /\ \A T \in SupportedTypes :
             /\ miTypeOf(T) # 0
             /\ mi2mx(miTypeOf(T)) # 0
             /\ (Kind(T) = Kind(Enc.T)) <=> (miTypeOf(T) = miTypeOf(Enc.T))
             /\ (Kind(T) = Kind(Enc.T))
                   <=> (mi2mx(miTypeOf(T)) = mi2mx(miTypeOf(Enc.T)))

C13_Witness ==
    /\ Constructed /\ hist[1].calls = 0
    /\ Enc.T = "unsigned long" /\ abi = "LP64"

\* 16 + 16 + 8 + (name length rounded up to 8) + 8: the bytes of the
\* sub-elements that precede the payload
FixedBytes(name) == 16 + 16 + 8 + RoundUp8(Len(name)) + 8

\* the bytes of the payload, before any padding
PayloadBytes == Enc._count * sizeof(Enc.T)

----------------------------------------------------------------------------
(* Claims about failing writes (checked under SpecFault). *)

\* the three patched fields of the encoder's file, as a reader decodes them
PatchedFields ==
    <<Field32(EncFile, 132), Field32(EncFile, 164),
      Field32(EncFile, PayloadLenOffset(Enc._name))>>

LastWriteFailed ==
    \/ last.op = "write" /\ last.ret = FALSE
    \/ last.op = "write_batch" /\ last.ret = 0

\* C15: whenever a write call may start, after any earlier calls, failed
\* ones included, the file position is the end of the payload written so
\* far: start of payload + elementCount * sizeof(element).
C15_PositionAtPayloadEnd ==
    Constructed
    => Enc._fp.pos = PayloadStart(Enc._name) + Enc._count * sizeof(Enc.T)

\* C16: a write call that meets a failing fwrite, ftell or fseek returns
\* failure and leaves the three patched fields as they were.
C16_FailedWritePatchesNothing ==
    [][(Constructed /\ budget' < budget)
       => /\ LastWriteFailed'
          /\ PatchedFields' = PatchedFields]_vars

----------------------------------------------------------------------------
(* Further claims about the registry (checked under Spec). *)

IsPrefix(a, b) == Len(a) <= Len(b) /\ a = SubSeq(b, 1, Len(a))

\* C17: an encoder whose construction failed made no call on its file after
\* the step that failed: the process is alive, and the file, if there is
\* one, holds the bytes a construction writes up to some step and nothing
\* after them.
C17_FailedConstructionStops ==
    /\ ~crashed
    /\ \A i \in 1..Len(_variables) :
          LET v == _variables[i]
              path == FilePath(_dir, v._name)
          IN  (v._fp = NULL /\ path \in DOMAIN disk)
              => IsPrefix(disk[path],
                          Variable(v.T, _dir, v._name, <<"none", 0>>).data)

----------------------------------------------------------------------------
(* The element count (checked under SpecFault). *)

\* Every write call adds to _count the number of elements its payload fwrite
\* transferred, whether the call succeeds or fails.
CountsWhatWasTransferred ==
    [][Constructed
       => /\ Enc._count' >= Enc._count
          /\ \A elems \in SeqsUpTo(FaultElements, MaxBatch) :
                \A num \in Transfers(Len(elems)) :
                   \A ufault \in CounterFaults(Enc, num, Len(elems)) :
                      /\ (last'.op = "write_batch"
                            /\ VarWriteBatch(elems, num, ufault))
                         => Enc._count' = Enc._count + num
                      /\ (last'.op = "write" /\ Len(elems) = 1
                            /\ VarWrite(elems[1], num, ufault))
                         => Enc._count' = Enc._count + num]_vars

\* After a successful call the dimension field and the payload-length field
\* hold the element count and the element count times sizeof(element).
FieldsHoldTheCount ==
    (Constructed /\ LastWriteOk)
    => /\ Field32(EncFile, 164) = Enc._count
       /\ Field32(EncFile, PayloadLenOffset(Enc._name)) = PayloadBytes

\* C18: the element count never decreases and every write call, successful
\* or failed, adds to it the number of elements its payload append
\* transferred; so after a successful call, whatever calls failed before it,
\* the patched fields count every element transferred.
C18_CountIsEveryTransfer == CountsWhatWasTransferred /\ []FieldsHoldTheCount

----------------------------------------------------------------------------
(* Independence of the variables of a registry (checked under Spec). *)

\* what a registry holds for its j-th variable: the encoder (element count,
\* write position, readiness) and the bytes of its file, if it has one
Held(vs, dsk, j) ==
    LET path == FilePath(_dir, vs[j]._name)
    IN  [var |-> vs[j],
         file |-> IF path \in DOMAIN dsk THEN <<dsk[path]>> ELSE <<>>]

\* C19: a write, successful or failed, addressed to one variable by handle
\* or by name leaves every other variable's encoder and file, and the
\* name-to-handle mapping, as they were.
C19_WritesAreLocal ==
    [][last'.op \in Writes
       => /\ _name2id' = _name2id
          /\ Len(_variables') = Len(_variables)
          /\ \A j \in 1..Len(_variables) :
                (last'.how = "rejected" \/ j # last'.id + 1)
                => Held(_variables', disk', j) = Held(_variables, disk, j)]_vars

C19_Witness ==
    /\ last.op \in Writes /\ last.how = "written" /\ last.ret = FALSE
    /\ Len(_variables) = 2
    /\ \A j \in 1..2 : _variables[j]._fp # NULL /\ _variables[j]._count > 0

----------------------------------------------------------------------------
(* The layout after construction (checked under SpecFault). *)

\* C20: for a name of length L a constructed encoder's file is 128 + 8 + 48
\* + roundup8(L) bytes long, with dimensions (1, 0) and payload-length 0,
\* until the first write; and the three patch offsets are those of their
\* fields, 132, 164 and 176 + roundup8(L) + 4, before and after every
\* write, successful or failed.
C20_LayoutAndOffsets ==
    Constructed
    => /\ _mat_tag_offset = 132
       /\ _dim_tag_offset = 164
       /\ Enc._re_tag_offset = 176 + RoundUp8(Len(Enc._name)) + 4
       /\ hist[1].calls = 0
          => /\ Len(EncFile) = 128 + 8 + 48 + RoundUp8(Len(Enc._name))
             /\ Field32(EncFile, 128) = miMATRIX
             /\ Field32(EncFile, 132) = Len(EncFile) - 136
             /\ Field32(EncFile, 160) = 1
             /\ Field32(EncFile, 164) = 0
             /\ Field32(EncFile, Enc._re_tag_offset) = 0
             /\ Field32(EncFile, Enc._re_tag_offset - 4) = miTypeOf(Enc.T)
             /\ Enc._fp.pos = Len(EncFile)

C20_Witness ==
    /\ Constructed /\ Len(Enc._name) = 4
    /\ hist[1].calls = 2 /\ ~hist[1].allok

====
